---------------------------- MODULE Spec2Model ----------------------------
(***************************************************************************)
(* Recursive filters of src/python/filters.py: LP_first_order,             *)
(* LP_second_order and Moving_average.                                     *)
(*                                                                         *)
(* Numbers are Python floats.  A float is modelled as a binary floating    *)
(* point number m * 2^e whose significand has at most Precision bits, and  *)
(* every arithmetic operation rounds its exact result to the nearest such  *)
(* number, ties to even, as IEEE 754 binary64 does with 53 bits.           *)
(***************************************************************************)
EXTENDS Integers, Sequences, FiniteSets, TLC

\* Width of the significand of a float (53 for a Python float).
Precision == 12

\* Largest number of samples fed to a low-pass filter between two resets.
MaxFeeds == 5

\* Largest number of samples fed to a moving average between two resets.
MaxWindowFeeds == 4

\* Longest sequence handed to one __call__.
MaxBatch == 2

---------------------------------------------------------------------------
(* Float arithmetic *)

RECURSIVE Pow2(_)
Pow2(k) == IF k <= 0 THEN 1 ELSE 2 * Pow2(k - 1)

RECURSIVE BitLen(_)
BitLen(n) == IF n <= 0 THEN 0 ELSE 1 + BitLen(n \div 2)

Abs(n) == IF n < 0 THEN -n ELSE n

RECURSIVE Norm(_, _)
\* The float m * 2^e in canonical form: zero is <<0, 0>>, otherwise m is odd.
Norm(m, e) ==
    IF m = 0 THEN [m |-> 0, e |-> 0]
    ELSE IF m % 2 = 0 THEN Norm(m \div 2, e + 1)
    ELSE [m |-> m, e |-> e]

\* 1 when the part cut off q = f * p + rem (and the fraction r / den below
\* it) makes f round up: more than half a unit of f, or exactly half with f
\* odd (ties to even).  s = 0 is the case in which nothing of q is cut off.
RoundUp(f, rem, p, r, den, s) ==
    IF s = 0
    THEN (IF (2 * r > den) \/ (2 * r = den /\ f % 2 = 1) THEN 1 ELSE 0)
    ELSE (IF (2 * rem > p) \/ (2 * rem = p /\ (r > 0 \/ f % 2 = 1))
          THEN 1 ELSE 0)

RoundCut(sign, f, rem, p, r, den, e, s) ==
    Norm(sign * (f + RoundUp(f, rem, p, r, den, s)), e + s)

RoundShift(sign, q, r, den, e, s, p) ==
    RoundCut(sign, q \div p, q % p, p, r, den, e, s)

\* The bits of a significand of L bits that do not fit.
Excess(L) == IF L > Precision THEN L - Precision ELSE 0

RoundBits(sign, q, r, den, e, s) == RoundShift(sign, q, r, den, e, s, Pow2(s))

\* (sign * num / den) * 2^e rounded to Precision significant bits, ties to
\* even.  When den does not divide num, num \div den has more than
\* Precision bits (the callers scale num for that).
RoundQ(sign, num, den, e) ==
    RoundBits(sign, num \div den, num % den, den, e,
              Excess(BitLen(num \div den)))

\* n * 2^e rounded
RoundInt(n, e) == RoundQ(IF n < 0 THEN -1 ELSE 1, Abs(n), 1, e)

FZero == [m |-> 0, e |-> 0]

\* The float of an integer.
FInt(n) == RoundInt(n, 0)

Top(a) == a.e + BitLen(Abs(a.m))

FNeg(a) == [m |-> -a.m, e |-> a.e]

AddAligned(a, b, lo) ==
    RoundInt(a.m * Pow2(a.e - lo) + b.m * Pow2(b.e - lo), lo)

FAdd(a, b) ==
    IF a.m = 0 THEN b
    ELSE IF b.m = 0 THEN a
    ELSE IF Top(a) - Top(b) > Precision + 2 THEN a
    ELSE IF Top(b) - Top(a) > Precision + 2 THEN b
    ELSE AddAligned(a, b, IF a.e < b.e THEN a.e ELSE b.e)

FSub(a, b) == FAdd(a, FNeg(b))

FMul(a, b) == RoundInt(a.m * b.m, a.e + b.e)

\* The shift that gives n * 2^k \div d at least Precision + 1 bits.
Scale(n, d) ==
    IF Precision + 2 + BitLen(d) > BitLen(n)
    THEN Precision + 2 + BitLen(d) - BitLen(n)
    ELSE 0

DivScaled(sign, n, d, e, k) == RoundQ(sign, n * Pow2(k), d, e - k)

\* a / b for b # 0 (Python raises ZeroDivisionError for b = 0; the callers
\* test for it).
FDiv(a, b) ==
    IF a.m = 0 THEN FZero
    ELSE DivScaled(IF (a.m < 0) = (b.m < 0) THEN 1 ELSE -1,
                   Abs(a.m), Abs(b.m), a.e - b.e, Scale(Abs(a.m), Abs(b.m)))

\* The decimal literal n/d (d > 0), rounded as the reader of a float
\* literal rounds it.
FLit(n, d) ==
    IF n = 0 THEN FZero
    ELSE DivScaled(IF n < 0 THEN -1 ELSE 1, Abs(n), d, 0, Scale(Abs(n), d))

\* Exact comparison of floats.
FLess(a, b) ==
    LET lo == IF a.e < b.e THEN a.e ELSE b.e
    IN  IF a.m = 0 THEN b.m > 0
        ELSE IF b.m = 0 THEN a.m < 0
        ELSE IF (a.m < 0) /\ (b.m > 0) THEN TRUE
        ELSE IF (a.m > 0) /\ (b.m < 0) THEN FALSE
        ELSE IF Top(a) # Top(b)
             THEN (IF a.m > 0 THEN Top(a) < Top(b) ELSE Top(a) > Top(b))
        ELSE a.m * Pow2(a.e - lo) < b.m * Pow2(b.e - lo)

FLeq(a, b) == a = b \/ FLess(a, b)

FAbs(a) == [m |-> Abs(a.m), e |-> a.e]

---------------------------------------------------------------------------
(* The math library, tabulated on the arguments the constructors below pass *)

\* math.tan( x ): the tangent to eight digits, rounded to a float.
MathTan(x) ==
    CASE x = FZero -> FZero
      [] x = FLit(1, 20) -> FLit(60, 1199)
      [] x = FInt(2) -> FLit(-555, 254)
      [] x = FInt(-1) -> FLit(-5792, 3719)

\* math.exp( x )
MathExp(x) ==
    CASE x = FZero -> FInt(1)
      [] x = FLit(-1, 10) -> FLit(1141, 1261)
      [] x = FInt(-4) -> FLit(72, 3931)
      [] x = FInt(2) -> FLit(27007, 3655)

---------------------------------------------------------------------------
(* Results of a method: the instance afterwards, the value returned and    *)
(* the exception raised ("none" when the method returns).                  *)

None == [cls |-> "None"]

\* The value of an attribute that no statement has set yet.
Unset == [unset |-> TRUE]

Returns(self, ret) == [self |-> self, ret |-> ret, exc |-> "none"]

Raises(self, exc) == [self |-> self, ret |-> None, exc |-> exc]

\* return self
ReturnSelf(self) == Returns(self, self)

---------------------------------------------------------------------------
(* class LP_first_order *)

\* The instance __init__ is handed: none of its attributes is set.
LP_first_order_new ==
    [cls |-> "LP_first_order", y_k1 |-> Unset, x_k1 |-> Unset,
     Cy1 |-> Unset, Cx0 |-> Unset, Cx1 |-> Unset]

\* A reset that clears a coefficient with the state.
LP_first_order_reset_clearing(self) ==
    [self EXCEPT !.y_k1 = FZero, !.x_k1 = FZero, !.Cx1 = FZero]

LP_first_order_reset(self) == [self EXCEPT !.y_k1 = FZero, !.x_k1 = FZero]

\* self._Cx1 = self._Cx0
CopyCx0ToCx1(self) == [self EXCEPT !.Cx1 = self.Cx0]

\* A bilinear transform whose input coefficient has lost its denominator's
\* sign: wc*Te/( 2 - wc*Te ).
LP_first_order_init_bilinear_signed(self, Te, wc) ==
    IF \/ FAdd(FInt(2), FMul(wc, Te)) = FZero
       \/ FSub(FInt(2), FMul(wc, Te)) = FZero
    THEN Raises(self, "ZeroDivisionError")
    ELSE ReturnSelf(
        CopyCx0ToCx1(
            [self EXCEPT !.Cy1 = FDiv(FSub(FInt(2), FMul(wc, Te)),
                                      FAdd(FInt(2), FMul(wc, Te))),
                         !.Cx0 = FDiv(FMul(wc, Te),
                                      FSub(FInt(2), FMul(wc, Te)))]))

LP_first_order_init_bilinear(self, Te, wc) ==
    IF FAdd(FInt(2), FMul(wc, Te)) = FZero
    THEN Raises(self, "ZeroDivisionError")
    ELSE ReturnSelf(
             CopyCx0ToCx1(
                 [self EXCEPT !.Cy1 = FDiv(FSub(FInt(2), FMul(wc, Te)),
                                           FAdd(FInt(2), FMul(wc, Te))),
                              !.Cx0 = FDiv(FMul(wc, Te),
                                           FAdd(FInt(2), FMul(wc, Te)))]))

\* The two lines after twt is computed.
HomographicCoefficients(self, twt) ==
    IF FAdd(FInt(1), twt) = FZero
    THEN Raises(self, "ZeroDivisionError")
    ELSE ReturnSelf(
             CopyCx0ToCx1(
                 [self EXCEPT !.Cy1 = FDiv(FSub(FInt(1), twt),
                                           FAdd(FInt(1), twt)),
                              !.Cx0 = FDiv(twt, FAdd(FInt(1), twt))]))

LP_first_order_init_homographic(self, Te, wc) ==
    HomographicCoefficients(self, MathTan(FDiv(FMul(wc, Te), FInt(2))))

StepMatchingCoefficients(self, ewt) ==
    ReturnSelf([self EXCEPT !.Cy1 = ewt, !.Cx0 = FZero,
                            !.Cx1 = FSub(FInt(1), ewt)])

LP_first_order_init_step_matching(self, Te, wc) ==
    StepMatchingCoefficients(self, MathExp(FMul(FNeg(wc), Te)))

ImpulseMatchingCoefficients(self, ewt) ==
    ReturnSelf([self EXCEPT !.Cy1 = ewt, !.Cx0 = FSub(FInt(1), ewt),
                            !.Cx1 = FZero])

LP_first_order_init_impulse_matching(self, Te, wc) ==
    ImpulseMatchingCoefficients(self, MathExp(FMul(FNeg(wc), Te)))

\* The attributes getattr finds on an instance inside __init__: the
\* methods of the class and what reset() has set.
LP_first_order_attributes ==
    {"__init__", "reset", "init_bilinear", "init_homographic",
     "init_step_matching", "init_impulse_matching", "_feed", "__call__",
     "_y_k1", "_x_k1"}

\* getattr( self, name )( Te, wc )
LP_first_order_getattr(self, name, Te, wc) ==
    IF name \notin LP_first_order_attributes
    THEN Raises(self, "AttributeError")
    ELSE CASE name = "init_bilinear" ->
                  LP_first_order_init_bilinear(self, Te, wc)
           [] name = "init_homographic" ->
                  LP_first_order_init_homographic(self, Te, wc)
           [] name = "init_step_matching" ->
                  LP_first_order_init_step_matching(self, Te, wc)
           [] name = "init_impulse_matching" ->
                  LP_first_order_init_impulse_matching(self, Te, wc)

\* __init__ returns None; an init_ method returns self, which is dropped.
DropResult(r) == [r EXCEPT !.ret = None]

LP_first_order_init(Te, wc, transform) ==
    DropResult(
        LP_first_order_getattr(LP_first_order_reset(LP_first_order_new),
                               "init_" \o transform, Te, wc))

\* self._y_k1 = y_k0; self._x_k1 = x_k0; return y_k0
LP_first_order_shift(self, x_k0, y_k0) ==
    Returns([self EXCEPT !.y_k1 = y_k0, !.x_k1 = x_k0], y_k0)

LP_first_order_feed(self, x_k0) ==
    LP_first_order_shift(self, x_k0,
        FAdd(FAdd(FMul(self.Cy1, self.y_k1), FMul(self.Cx0, x_k0)),
             FMul(self.Cx1, self.x_k1)))

---------------------------------------------------------------------------
(* class LP_second_order *)

LP_second_order_new ==
    [cls |-> "LP_second_order", y_k1 |-> Unset, x_k1 |-> Unset,
     y_k2 |-> Unset, x_k2 |-> Unset, Cy1 |-> Unset, Cy2 |-> Unset,
     Cx0 |-> Unset, Cx1 |-> Unset, Cx2 |-> Unset]

LP_second_order_reset(self) ==
    [self EXCEPT !.y_k1 = FZero, !.x_k1 = FZero,
                 !.y_k2 = FZero, !.x_k2 = FZero]

\* self._Cx1 = 2*self._Cx0; self._Cx2 = self._Cx0
DeriveCx1Cx2(self) ==
    [self EXCEPT !.Cx1 = FMul(FInt(2), self.Cx0), !.Cx2 = self.Cx0]

\* The lines after w2T2 and den are computed.
BilinearCoefficients(self, Te, w0, Q, w2T2, den) ==
    IF den = FZero
    THEN Raises(self, "ZeroDivisionError")
    ELSE ReturnSelf(
             DeriveCx1Cx2(
                 [self EXCEPT
                      !.Cy1 = FDiv(FMul(FMul(FInt(2), Q),
                                        FSub(FInt(4), w2T2)), den),
                      !.Cy2 = FDiv(FSub(FSub(FMul(FMul(FInt(2), w0), Te),
                                             FMul(FInt(4), Q)),
                                        FMul(Q, w2T2)), den),
                      !.Cx0 = FDiv(FMul(Q, w2T2), den)]))

\* den = 2*w0*Te + 4*Q + Q*w2T2
BilinearDen(self, Te, w0, Q, w2T2) ==
    BilinearCoefficients(self, Te, w0, Q, w2T2,
        FAdd(FAdd(FMul(FMul(FInt(2), w0), Te), FMul(FInt(4), Q)),
             FMul(Q, w2T2)))

\* v**2
Square(v) == FMul(v, v)

LP_second_order_init_bilinear(self, Te, w0, Q) ==
    BilinearDen(self, Te, w0, Q, Square(FMul(w0, Te)))

LP_second_order_attributes ==
    {"__init__", "reset", "init_bilinear", "_feed", "__call__",
     "_y_k1", "_x_k1", "_y_k2", "_x_k2"}

\* A lookup that falls back on the bilinear transform.
LP_second_order_getattr_defaulting(self, name, Te, w0, Q) ==
    LP_second_order_init_bilinear(self, Te, w0, Q)

LP_second_order_getattr(self, name, Te, w0, Q) ==
    IF name \notin LP_second_order_attributes
    THEN Raises(self, "AttributeError")
    ELSE CASE name = "init_bilinear" ->
                  LP_second_order_init_bilinear(self, Te, w0, Q)

LP_second_order_init(Te, w0, Q, transform) ==
    DropResult(
        LP_second_order_getattr(
            LP_second_order_reset(LP_second_order_new),
            "init_" \o transform, Te, w0, Q))

\* A shift that overwrites _y_k1 before it is copied to _y_k2.
LP_second_order_shift_late(self, x_k0, y_k0) ==
    Returns([self EXCEPT !.y_k2 = y_k0, !.y_k1 = y_k0,
                         !.x_k2 = self.x_k1, !.x_k1 = x_k0], y_k0)

LP_second_order_shift(self, x_k0, y_k0) ==
    Returns([self EXCEPT !.y_k2 = self.y_k1, !.y_k1 = y_k0,
                         !.x_k2 = self.x_k1, !.x_k1 = x_k0], y_k0)

LP_second_order_feed(self, x_k0) ==
    LP_second_order_shift(self, x_k0,
        FAdd(FAdd(FAdd(FAdd(FMul(self.Cy1, self.y_k1),
                            FMul(self.Cy2, self.y_k2)),
                       FMul(self.Cx0, x_k0)),
                  FMul(self.Cx1, self.x_k1)),
             FMul(self.Cx2, self.x_k2)))

---------------------------------------------------------------------------
(* class Moving_average *)

RECURSIVE Zeros(_)
\* [ 0 ]*N: N zeros, and the empty list for N <= 0.
Zeros(N) == IF N <= 0 THEN << >> ELSE Append(Zeros(N - 1), FZero)

Moving_average_new ==
    [cls |-> "Moving_average", N |-> Unset, buffer |-> Unset, i |-> Unset,
     y_k0 |-> Unset]

Moving_average_reset(self) ==
    [self EXCEPT !.buffer = Zeros(self.N), !.i = 0, !.y_k0 = FZero]

\* self._N = N; self.reset()
Moving_average_init(N) ==
    Returns(Moving_average_reset([Moving_average_new EXCEPT !.N = N]), None)

\* buffer[ i ] is the element at the 0-based index i: slot i + 1 here.
\* self._y_k0 -= self._buffer[self._i]
SubtractSlot(self) ==
    [self EXCEPT !.y_k0 = FSub(self.y_k0, self.buffer[self.i + 1])]

\* self._buffer[self._i] = x_k0/self._N
StoreSlot(self, x_k0) ==
    [self EXCEPT !.buffer[self.i + 1] = FDiv(x_k0, FInt(self.N))]

\* self._y_k0 += self._buffer[self._i]
AddSlot(self) ==
    [self EXCEPT !.y_k0 = FAdd(self.y_k0, self.buffer[self.i + 1])]

\* self._i += 1; if self._i >= self._N : self._i = 0
AdvanceCursor(self) ==
    [self EXCEPT !.i = IF self.i + 1 >= self.N THEN 0 ELSE self.i + 1]

\* return self._y_k0
ReturnAverage(self) == Returns(self, self.y_k0)

Moving_average_feed(self, x_k0) ==
    IF self.i + 1 \notin DOMAIN self.buffer
    THEN Raises(self, "IndexError")
    ELSE ReturnAverage(
             AdvanceCursor(AddSlot(StoreSlot(SubtractSlot(self), x_k0))))

---------------------------------------------------------------------------
(* __call__, the same in the three classes *)

\* self._feed( x ), resolved on the class of self.
Feed(self, x) ==
    CASE self.cls = "LP_first_order" -> LP_first_order_feed(self, x)
      [] self.cls = "LP_second_order" -> LP_second_order_feed(self, x)
      [] self.cls = "Moving_average" -> Moving_average_feed(self, x)

RECURSIVE Comprehension(_, _, _)
\* A comprehension that collects the outputs last first.
CollectReversed(r, rest, acc) ==
    IF r.exc # "none" THEN r
    ELSE Comprehension(r.self, rest, <<r.ret>> \o acc)

\* One element of the comprehension: r is what self._feed( x ) did, and an
\* exception it raised ends the comprehension.
Collect(r, rest, acc) ==
    IF r.exc # "none" THEN r
    ELSE Comprehension(r.self, rest, Append(acc, r.ret))

\* [ self._feed( x ) for x in items ], acc the outputs collected so far.
Comprehension(self, items, acc) ==
    IF items = << >> THEN Returns(self, acc)
    ELSE Collect(Feed(self, Head(items)), Tail(items), acc)

\* An argument of __call__: a float, or an iterable of floats.
Scalar(x) == [iterable |-> FALSE, value |-> x]

Iterable(xs) == [iterable |-> TRUE, items |-> xs]

Call(self, input) ==
    IF input.iterable
    THEN Comprehension(self, input.items, << >>)
    ELSE Feed(self, input.value)

\* A second-order reset that forgets the older pair of samples.
ResetKeepingOlderSamples(self) ==
    CASE self.cls = "LP_first_order" -> LP_first_order_reset(self)
      [] self.cls = "LP_second_order" ->
             [self EXCEPT !.y_k1 = FZero, !.x_k1 = FZero]
      [] self.cls = "Moving_average" -> Moving_average_reset(self)

Reset(self) ==
    CASE self.cls = "LP_first_order" -> LP_first_order_reset(self)
      [] self.cls = "LP_second_order" -> LP_second_order_reset(self)
      [] self.cls = "Moving_average" -> Moving_average_reset(self)

---------------------------------------------------------------------------
(* The caller: one variable bound to an instance, and the calls made on it *)

VARIABLES
    obj,        \* the instance the caller holds, None before a constructor returns
    ctor,       \* the constructor call that was made last: class and arguments
    op,         \* the call made last: its name and its argument
    ret,        \* what the last call returned (None when it raised)
    exc,        \* the exception the last call raised, "none" when it returned
    wreck,      \* the instance a raising constructor was initialising, else None
    hist,       \* the samples fed since the constructor or the last reset
    outs,       \* the outputs returned for them
    wasReset    \* the last reset() found the instance with samples fed to it

vars == <<obj, ctor, op, ret, exc, wreck, hist, outs, wasReset>>

\* A sample twelve times the first integer the significand cannot tell from
\* its successor (12 * 2^53 for a Python float).
Big == [m |-> 3, e |-> Precision + 2]

Transforms ==
    {"bilinear", "homographic", "step_matching", "impulse_matching",
     "trapezoidal", ""}

FirstOrderArgs ==
    {[cls |-> "LP_first_order", Te |-> p[1], wc |-> p[2], transform |-> t] :
        p \in {<<FLit(1, 10), FInt(1)>>, <<FInt(1), FInt(4)>>,
               <<FZero, FInt(1)>>, <<FInt(-2), FInt(1)>>},
        t \in Transforms}

SecondOrderArgs ==
    {[cls |-> "LP_second_order", Te |-> p[1], w0 |-> p[2], Q |-> p[3],
      transform |-> t] :
        p \in {<<FLit(1, 2), FInt(1), FInt(1)>>,
               <<FLit(1, 100), FInt(10), FLit(7, 10)>>,
               <<FLit(1, 2), FInt(1), FZero>>,
               <<FZero, FInt(1), FZero>>},
        t \in {"bilinear", "homographic"}}

MovingAverageArgs ==
    {[cls |-> "Moving_average", N |-> n] : n \in {-1, 0, 1, 2, 3}}

\* The constructor call a, as the class runs it.
New(a) ==
    CASE a.cls = "LP_first_order" ->
             LP_first_order_init(a.Te, a.wc, a.transform)
      [] a.cls = "LP_second_order" ->
             LP_second_order_init(a.Te, a.w0, a.Q, a.transform)
      [] a.cls = "Moving_average" -> Moving_average_init(a.N)

Samples(cls) ==
    IF cls = "Moving_average"
    THEN {FInt(3), FInt(6), FInt(9), FInt(12), Big}
    ELSE {FInt(-1), FZero, FInt(1)}

RECURSIVE Lists(_, _)
\* The lists of n elements of S.
Lists(S, n) ==
    IF n = 0 THEN {<< >>}
    ELSE {Append(xs, x) : xs \in Lists(S, n - 1), x \in S}

Batches(cls) == UNION {Lists(Samples(cls), n) : n \in 0..MaxBatch}

\* The samples an instance of class cls is fed between two resets.
FeedBound(cls) == IF cls = "Moving_average" THEN MaxWindowFeeds ELSE MaxFeeds

Init ==
    /\ obj = None
    /\ ctor = None
    /\ op = [name |-> "none"]
    /\ ret = None
    /\ exc = "none"
    /\ wreck = None
    /\ hist = << >>
    /\ outs = << >>
    /\ wasReset = FALSE

\* f = Class( ... ): the name is bound only if __init__ returns.  r is what
\* the constructor call a did.
Bind(a, r) ==
    /\ obj = None
    /\ obj' = IF r.exc = "none" THEN r.self ELSE None
    /\ wreck' = IF r.exc = "none" THEN None ELSE r.self
    /\ ctor' = a
    /\ op' = [name |-> "new"]
    /\ ret' = None
    /\ exc' = r.exc
    /\ hist' = << >>
    /\ outs' = << >>
    /\ wasReset' = FALSE

Construct(a) == Bind(a, New(a))

NewFirstOrder == \E a \in FirstOrderArgs : Construct(a)

NewSecondOrder == \E a \in SecondOrderArgs : Construct(a)

NewMovingAverage == \E a \in MovingAverageArgs : Construct(a)

\* The caller after f( input ): r is what the call did, xs the samples of
\* input and ys the outputs it returned for them.
Called(name, input, xs, r, ys) ==
    /\ obj' = r.self
    /\ op' = [name |-> name, input |-> input]
    /\ ret' = r.ret
    /\ exc' = r.exc
    /\ hist' = IF r.exc = "none" THEN hist \o xs ELSE hist
    /\ outs' = IF r.exc = "none" THEN outs \o ys ELSE outs
    /\ UNCHANGED <<ctor, wreck, wasReset>>

ScalarCalled(x, r) == Called("feed", x, <<x>>, r, <<r.ret>>)

IterableCalled(xs, r) == Called("apply", xs, xs, r, r.ret)

\* f( x ) for a float x
CallScalar ==
    /\ obj # None
    /\ Len(hist) < FeedBound(obj.cls)
    /\ \E x \in Samples(obj.cls) : ScalarCalled(x, Call(obj, Scalar(x)))

\* f( xs ) for a list xs of floats
CallIterable ==
    /\ obj # None
    /\ \E xs \in Batches(obj.cls) :
          /\ Len(hist) + Len(xs) <= FeedBound(obj.cls)
          /\ IterableCalled(xs, Call(obj, Iterable(xs)))

\* f.reset()
CallReset ==
    /\ obj # None
    /\ obj' = Reset(obj)
    /\ op' = [name |-> "reset"]
    /\ ret' = None
    /\ exc' = "none"
    /\ hist' = << >>
    /\ outs' = << >>
    /\ wasReset' = (hist # << >>)
    /\ UNCHANGED <<ctor, wreck>>

Next ==
    \/ NewFirstOrder
    \/ NewSecondOrder
    \/ NewMovingAverage
    \/ CallScalar
    \/ CallIterable
    \/ CallReset

Spec == Init /\ [][Next]_vars

---------------------------------------------------------------------------
(* Properties *)

Front(xs) == SubSeq(xs, 1, Len(xs) - 1)

Last(xs) == xs[Len(xs)]

RECURSIVE SingleCalls(_, _)
\* The calls f( xs[1] ), ..., f( xs[n] ), each on one float, made one after
\* the other on the instance self: the instance afterwards, the values the
\* calls returned, and the exception that stopped them.
SingleCalls(self, xs) ==
    IF xs = << >> THEN [self |-> self, rets |-> << >>, exc |-> "none"]
    ELSE LET before == SingleCalls(self, Front(xs))
             r == Call(before.self, Scalar(Last(xs)))
         IN  IF before.exc # "none" THEN before
             ELSE IF r.exc # "none"
                  THEN [self |-> r.self, rets |-> before.rets, exc |-> r.exc]
                  ELSE [self |-> r.self, rets |-> Append(before.rets, r.ret),
                        exc |-> "none"]

\* C1: __call__ on a sequence returns as many outputs as it was given
\* samples, the k-th being what the k-th of successive calls on the single
\* samples returns from the same state, and leaves the instance in the state
\* those calls leave it in; __call__ on a float is one _feed.
ApplyIsSuccessiveFeeds ==
    [][ /\ op'.name = "apply" =>
              /\ exc' = SingleCalls(obj, op'.input).exc
              /\ obj' = SingleCalls(obj, op'.input).self
              /\ exc' = "none" =>
                    /\ Len(ret') = Len(op'.input)
                    /\ ret' = SingleCalls(obj, op'.input).rets
        /\ op'.name = "feed" =>
              /\ exc' = Feed(obj, op'.input).exc
              /\ obj' = Feed(obj, op'.input).self
              /\ ret' = Feed(obj, op'.input).ret ]_vars

\* A sequence of two samples was applied to a moving average of window 2
\* that had been fed one sample before, and the two outputs differ.
ApplyWitness ==
    /\ op.name = "apply"
    /\ Len(op.input) = 2
    /\ Len(hist) = 3
    /\ obj.cls = "Moving_average"
    /\ obj.N = 2
    /\ ret[1] # ret[2]

\* C2: whatever was fed before, the outputs returned since a reset are those
\* a freshly constructed instance with the same arguments returns for the
\* same samples.
ResetIsFresh ==
    obj # None =>
        /\ outs = SingleCalls(New(ctor).self, hist).rets
        /\ obj = SingleCalls(New(ctor).self, hist).self

\* A second-order filter was fed, reset and fed two samples again.
ResetWitness ==
    /\ wasReset
    /\ obj.cls = "LP_second_order"
    /\ Len(hist) = 2
    /\ outs[2] # FZero

StateAttributes(cls) ==
    CASE cls = "LP_first_order" -> {"y_k1", "x_k1"}
      [] cls = "LP_second_order" -> {"y_k1", "y_k2", "x_k1", "x_k2"}
      [] cls = "Moving_average" -> {"buffer", "i", "y_k0"}

\* C6: reset zeroes every state variable (the N buffer slots, the cursor and
\* the running sum of a moving average) and leaves the coefficients, or N, as
\* they were.
ResetZeroesState ==
    [][ op'.name = "reset" =>
          /\ DOMAIN obj' = DOMAIN obj
          /\ \A a \in (DOMAIN obj) \ StateAttributes(obj.cls) : obj'[a] = obj[a]
          /\ obj.cls \in {"LP_first_order", "LP_second_order"} =>
                \A a \in StateAttributes(obj.cls) : obj'[a] = FZero
          /\ obj.cls = "Moving_average" =>
                /\ Len(obj'.buffer) = (IF obj.N > 0 THEN obj.N ELSE 0)
                /\ \A k \in 1..Len(obj'.buffer) : obj'.buffer[k] = FZero
                /\ obj'.i = 0
                /\ obj'.y_k0 = FZero ]_vars

\* A moving average over three samples was reset with its cursor advanced.
ResetZeroesWitness ==
    /\ op.name = "reset"
    /\ wasReset
    /\ obj.cls = "Moving_average"
    /\ obj.N = 3

Coefficients(cls) ==
    CASE cls = "LP_first_order" -> {"Cy1", "Cx0", "Cx1"}
      [] cls = "LP_second_order" -> {"Cy1", "Cy2", "Cx0", "Cx1", "Cx2"}
      [] cls = "Moving_average" -> {}

SupportedTransforms(cls) ==
    CASE cls = "LP_first_order" ->
             {"bilinear", "homographic", "step_matching", "impulse_matching"}
      [] cls = "LP_second_order" -> {"bilinear"}

\* C4: a constructor given a transform name the class does not support
\* raises: no coefficient has been computed and the caller holds no instance.
UnsupportedTransformFails ==
    (/\ op.name = "new"
     /\ ctor.cls \in {"LP_first_order", "LP_second_order"}
     /\ ctor.transform \notin SupportedTransforms(ctor.cls))
    => /\ exc = "AttributeError"
       /\ obj = None
       /\ \A c \in Coefficients(ctor.cls) : wreck[c] = Unset

\* A second-order filter was asked for the homographic transform, which only
\* the first-order filter has.
UnsupportedTransformWitness ==
    /\ op.name = "new"
    /\ ctor.cls = "LP_second_order"
    /\ ctor.transform = "homographic"
    /\ ctor.Q # FZero
    /\ exc = "AttributeError"

Positive(a) == a.m > 0

PositiveArgs(a) ==
    CASE a.cls = "LP_first_order" -> Positive(a.Te) /\ Positive(a.wc)
      [] a.cls = "LP_second_order" ->
             Positive(a.Te) /\ Positive(a.w0) /\ Positive(a.Q)
      [] a.cls = "Moving_average" -> a.N > 0

\* C5: a constructor given a non-positive Te, wc, w0, Q or N fails, so that
\* no instance with such a parameter exists to be fed, applied or reset.
NonPositiveParameterFails ==
    obj # None => PositiveArgs(ctor)

\* C9: _feed of the second-order filter returns
\* Cy1*y1 + Cy2*y2 + Cx0*x0 + Cx1*x1 + Cx2*x2 of the state before the call,
\* moves y_k1 to y_k2 and x_k1 to x_k2, stores the output in y_k1 and the
\* input in x_k1 and leaves the coefficients alone; so the state always
\* holds the two most recent outputs and inputs (zero where none was fed).
SecondOrderFeedShifts ==
    [][ obj'.cls = "LP_second_order" =>
          /\ (op'.name = "feed") =>
                /\ ret' = FAdd(FAdd(FAdd(FAdd(FMul(obj.Cy1, obj.y_k1),
                                              FMul(obj.Cy2, obj.y_k2)),
                                         FMul(obj.Cx0, op'.input)),
                                    FMul(obj.Cx1, obj.x_k1)),
                               FMul(obj.Cx2, obj.x_k2))
                /\ obj'.y_k2 = obj.y_k1
                /\ obj'.y_k1 = ret'
                /\ obj'.x_k2 = obj.x_k1
                /\ obj'.x_k1 = op'.input
                /\ \A c \in Coefficients("LP_second_order") : obj'[c] = obj[c]
          /\ obj'.y_k1 = (IF Len(outs') >= 1 THEN outs'[Len(outs')] ELSE FZero)
          /\ obj'.y_k2 =
                (IF Len(outs') >= 2 THEN outs'[Len(outs') - 1] ELSE FZero)
          /\ obj'.x_k1 = (IF Len(hist') >= 1 THEN hist'[Len(hist')] ELSE FZero)
          /\ obj'.x_k2 =
                (IF Len(hist') >= 2 THEN hist'[Len(hist') - 1] ELSE FZero)
      ]_vars

\* A second-order filter was fed a third sample, all four state variables
\* differing.
SecondOrderFeedWitness ==
    /\ op.name = "feed"
    /\ obj.cls = "LP_second_order"
    /\ Len(hist) = 3
    /\ obj.y_k1 # obj.y_k2
    /\ obj.x_k1 # obj.x_k2
    /\ obj.y_k2 # FZero

\* The exact value of a float that is an integer.
IntValue(a) == a.m * Pow2(a.e)

RECURSIVE IntSum(_)
IntSum(xs) == IF xs = << >> THEN 0 ELSE IntValue(Head(xs)) + IntSum(Tail(xs))

\* The last n of xs, all of xs if it has fewer.
LastN(xs, n) ==
    IF Len(xs) <= n THEN xs ELSE SubSeq(xs, Len(xs) - n + 1, Len(xs))

\* C3: every output of a moving average of window N >= 1, which is its
\* running sum y_k0, is the arithmetic mean of the last N samples fed, the
\* samples missing since the constructor or the last reset counting as zero.
\* The mean is taken as the float nearest to it.
AverageIsMean ==
    (obj.cls = "Moving_average" /\ obj.N >= 1) =>
        /\ \A k \in 1..Len(outs) :
              outs[k] = FLit(IntSum(LastN(SubSeq(hist, 1, k), obj.N)), obj.N)
        /\ hist # << >> => obj.y_k0 = outs[Len(outs)]

RECURSIVE FloatSum(_, _)
\* sum( xs ) started from acc, added left to right as floats.
FloatSum(xs, acc) ==
    IF xs = << >> THEN acc ELSE FloatSum(Tail(xs), FAdd(acc, Head(xs)))

\* C10: a moving average of window N >= 1 always has a buffer of N slots, a
\* cursor in [0, N) that is the number of samples fed since the constructor
\* or the last reset modulo N, and a running sum y_k0 that is the sum of the
\* buffer's slots.
RunningSumIsBufferSum ==
    (obj.cls = "Moving_average" /\ obj.N >= 1) =>
        /\ Len(obj.buffer) = obj.N
        /\ obj.i \in 0..(obj.N - 1)
        /\ obj.i = Len(hist) % obj.N
        /\ obj.y_k0 = FloatSum(obj.buffer, FZero)

ConstantInput == hist # << >> /\ \A k \in 1..Len(hist) : hist[k] = hist[1]

\* |y - c|
Error(y, c) == FAbs(FSub(y, c))

\* C7: a first-order filter built with positive Te and wc by any of its four
\* transforms and fed a constant c converges to c.  Once the first sample is
\* in, the error of such a filter is multiplied by Cy1 at every step, so it
\* converges exactly if no output is farther from c than the one before it.
ConstantInputConverges ==
    (/\ obj.cls = "LP_first_order"
     /\ PositiveArgs(ctor)
     /\ ConstantInput)
    => \A k \in 2..Len(outs) :
          FLeq(Error(outs[k], hist[1]), Error(outs[k - 1], hist[1]))

Ones(n) == [k \in 1..n |-> FInt(1)]

\* C8: the first-order filter of Te = 0.1 and wc = 1.0 by the bilinear
\* transform, fed ones from its initial state, returns 0.1/2.1, which is
\* 0.0476 to four decimals, then ever larger outputs that stay below 1.
BilinearStepResponse ==
    (/\ obj.cls = "LP_first_order"
     /\ ctor.Te = FLit(1, 10) /\ ctor.wc = FInt(1)
     /\ ctor.transform = "bilinear"
     /\ hist # << >> /\ hist = Ones(Len(hist)))
    => /\ outs[1] = FDiv(FLit(1, 10), FLit(21, 10))
       /\ FLess(Error(outs[1], FLit(476, 10000)), FLit(1, 10000))
       /\ \A k \in 2..Len(outs) : FLess(outs[k - 1], outs[k])
       /\ \A k \in 1..Len(outs) : FLess(outs[k], FInt(1))

\* The filter has returned its fifth output of the scenario.
BilinearStepWitness ==
    /\ obj.cls = "LP_first_order"
    /\ ctor.Te = FLit(1, 10) /\ ctor.wc = FInt(1)
    /\ ctor.transform = "bilinear"
    /\ ~wasReset
    /\ Len(outs) = 5
    /\ hist = Ones(5)

=============================================================================
